---------------------------- MODULE Spec2Model ----------------------------
(***************************************************************************)
(* CwaWeather-backend: three variants of one weather aggregator.           *)
(*   "general"    src/server.js           getGeneralWeather  (F-C0032-001) *)
(*   "combined"   src/unnamed/part_000    getCombinedWeather (F-D0047-091  *)
(*                                        and F-A0085-005, Promise.all)    *)
(*   "serverless" src/unnamed/part_001    handler (the same two datasets,  *)
(*                                        fetched one after the other)     *)
(* A behaviour is one deployed variant serving requests one at a time;     *)
(* the handlers share no mutable state between requests.                   *)
(*                                                                         *)
(* Strings.  The source's place names and messages are Chinese; the module *)
(* is ASCII, so every place is written by its romanised name and every     *)
(* message as a tuple of tokens <<text, interpolated values...>>.  Values  *)
(* that the code parses or formats (parameterName, minTemp, temperature)   *)
(* are sequences of one-character strings; "deg" stands for the degree     *)
(* sign.                                                                   *)
(***************************************************************************)
EXTENDS Integers, Sequences, FiniteSets, TLC

VARIABLES
    variant,          \* which of the three programs is deployed
    CWA_API_KEY,      \* TRUE iff process.env.CWA_API_KEY is set (truthy)
    pc,               \* position of the handler
    query,            \* req.query.locationName / req.query.city ("" = absent)
    apiLocationName,  \* server.js:66
    calls,            \* outbound axios.get calls of this request, in issue order
    data,             \* upstream bodies received so far
    locationData,     \* server.js:72 (Undefined when find returns undefined)
    weatherData,      \* server.js:84
    i,                \* server.js:95 loop index (0-based, as in the source)
    res,              \* the responses sent on res for this request
    escaped           \* TRUE iff an exception left the handler (rejected promise)

vars == <<variant, CWA_API_KEY, pc, query, apiLocationName, calls, data,
          locationData, weatherData, i, res, escaped>>

(***************************************************************************)
(* Bounds of the model.                                                    *)
(***************************************************************************)
MaxSlots == 2        \* longest time series of a 36-hour weather element
MaxTSlots == 6       \* longest T series of the two-week dataset (> JoinLimit)
MaxWxSlots == 2      \* longest Wx series that is not aligned with the T series
MaxWxStart == 3      \* latest start time of a slot of such a Wx series

(***************************************************************************)
(* Program constants.                                                      *)
(***************************************************************************)
TAIWAN_LOCATIONS ==
    << "YilanCounty", "HualienCounty", "TaitungCounty", "PenghuCounty",
       "KinmenCounty", "LienchiangCounty",
       "TaipeiCity", "NewTaipeiCity", "TaoyuanCity", "TaichungCity",
       "TainanCity", "KaohsiungCity",
       "KeelungCity", "HsinchuCounty", "HsinchuCity", "MiaoliCounty",
       "ChanghuaCounty", "NantouCounty",
       "YunlinCounty", "ChiayiCounty", "ChiayiCity", "PingtungCounty" >>

CWA_NAME_MAP ==
    [n \in {"HsinchuCity", "ChiayiCity"} |->
        IF n = "HsinchuCity" THEN "HsinchuCounty" ELSE "ChiayiCounty"]

JoinLimit == 5       \* part_000:113  tempElement.time.slice(0, 5)

Range(s) == {s[k] : k \in 1..Len(s)}

\* Array.prototype.includes
Includes(arr, x) == \E k \in 1..Len(arr) : arr[k] = x

\* Array.prototype.find returns undefined when no element matches.
Undefined == [undefined |-> TRUE]

\* arr.find(x => x[field] === value): the first match, in array order.
Find(arr, field, value) ==
    IF \E k \in 1..Len(arr) : arr[k][field] = value
    THEN arr[CHOOSE k \in 1..Len(arr) :
                /\ arr[k][field] = value
                /\ \A j \in 1..(k - 1) : arr[j][field] # value]
    ELSE Undefined

(***************************************************************************)
(* JavaScript numbers and strings, as far as the handlers use them.        *)
(* A number is [nan, val]; a parsed or formatted string is a sequence of   *)
(* one-character strings.                                                  *)
(***************************************************************************)
NaN == [nan |-> TRUE, val |-> 0]
Num(n) == [nan |-> FALSE, val |-> n]

DigitChars == <<"0", "1", "2", "3", "4", "5", "6", "7", "8", "9">>
IsDigit(c) == \E d \in 1..10 : DigitChars[d] = c
DigitVal(c) == (CHOOSE d \in 1..10 : DigitChars[d] = c) - 1

DegC == <<"deg", "C">>          \* the suffix the source writes as degree-sign C
Percent == <<"%">>

\* The longest prefix of s made of digits.
RECURSIVE DigitPrefix(_)
DigitPrefix(s) ==
    IF s = <<>> \/ ~IsDigit(Head(s)) THEN <<>>
    ELSE <<Head(s)>> \o DigitPrefix(Tail(s))

RECURSIVE DigitsValue(_, _)
DigitsValue(s, acc) ==
    IF s = <<>> THEN acc
    ELSE DigitsValue(Tail(s), 10 * acc + DigitVal(Head(s)))

RECURSIVE SkipSpaces(_)
SkipSpaces(s) ==
    IF s # <<>> /\ Head(s) = " " THEN SkipSpaces(Tail(s)) ELSE s

\* parseInt(string): leading white space is skipped, one sign is accepted,
\* the digits that follow are read up to the first other character; NaN
\* when no digit was read.
ParseInt(str) ==
    LET s    == SkipSpaces(str)
        neg  == s # <<>> /\ Head(s) = "-"
        sgn  == s # <<>> /\ Head(s) \in {"-", "+"}
        rest == IF sgn THEN Tail(s) ELSE s
        digs == DigitPrefix(rest)
    IN  IF digs = <<>> THEN NaN
        ELSE Num(IF neg THEN 0 - DigitsValue(digs, 0) ELSE DigitsValue(digs, 0))

RECURSIVE NatToStr(_)
NatToStr(n) ==
    IF n < 10 THEN <<DigitChars[n + 1]>>
    ELSE NatToStr(n \div 10) \o <<DigitChars[(n % 10) + 1]>>

\* String(number), as a template literal formats it.
NumToStr(x) ==
    IF x.nan THEN <<"N", "a", "N">>
    ELSE IF x.val < 0 THEN <<"-">> \o NatToStr(0 - x.val)
    ELSE NatToStr(x.val)

\* Math.round((a + b) / 2) for two parsed integers: halves round towards
\* +Infinity; NaN when either operand is NaN.  \div is the floor division.
RoundHalfSumDown(a, b) ==
    IF a.nan \/ b.nan THEN NaN ELSE Num((a.val + b.val) \div 2)
RoundHalfSum(a, b) ==
    IF a.nan \/ b.nan THEN NaN ELSE Num((a.val + b.val + 1) \div 2)

(***************************************************************************)
(* What the upstream provider can answer to one axios.get.                 *)
(*   ok       a 2xx response; axios resolves with response.data = body     *)
(*   http     a non-2xx response; axios rejects, error.response is set     *)
(*   network  no response at all; axios rejects, error.response is unset   *)
(* The body of an error response is what axios parsed: a JSON object with  *)
(* or without a message, the empty string (an empty body), or null (the    *)
(* JSON text null).                                                        *)
(***************************************************************************)
ErrorBodies ==
    { [kind |-> "object", message |-> <<"Unauthorized">>],
      [kind |-> "object", message |-> <<>>],      \* message: ""
      [kind |-> "object"],                        \* no message field
      [kind |-> "string"],                        \* empty body: data = ""
      [kind |-> "null"] }                         \* body null: data = null

ErrorStatuses == {401, 503}

HttpErrors ==
    { [type |-> "http", status |-> s, body |-> b] :
        s \in ErrorStatuses, b \in ErrorBodies }

NetworkError == [type |-> "network"]

Ok(body) == [type |-> "ok", body |-> body]

\* The Error object axios (or the code) throws.
AxiosError(outcome) ==
    IF outcome.type = "http"
    THEN [message |-> <<"Request failed with status code",
                           ToString(outcome.status)>>,
          hasResponse |-> TRUE,
          response |-> [status |-> outcome.status, data |-> outcome.body]]
    ELSE [message |-> <<"Network Error">>, hasResponse |-> FALSE]

TypeError == [message |-> <<"Cannot read properties of undefined">>,
              hasResponse |-> FALSE]

(***************************************************************************)
(* Bodies of the 36-hour dataset F-C0032-001 (server.js).                  *)
(***************************************************************************)
\* Element names: Wx, PoP, MinT, MaxT, CI are handled; RH stands for any other.
\* parameterName of element `name`, series variant v, position p (1-based).
ParamValue(name, v, p) ==
    CASE name = "MinT" -> NumToStr(Num((IF v = 1 THEN 20 ELSE 0 - 8) + p - 1))
      [] name = "MaxT" -> NumToStr(Num((IF v = 1 THEN 24 ELSE 0 - 3) + p - 1))
      [] name = "PoP"  -> NatToStr(10 * v + p)
      [] name = "Wx"   -> <<IF v = 1 THEN "S" ELSE "R">> \o NatToStr(p)
      [] name = "CI"   -> <<IF v = 1 THEN "C" ELSE "W">> \o NatToStr(p)
      [] OTHER         -> <<"H">> \o NatToStr(v) \o NatToStr(p)

\* One weatherElement with m time slots; slot p covers [p, p + 1).
Element(name, v, m) ==
    [elementName |-> name,
     time |-> [p \in 1..m |->
                 [startTime |-> p, endTime |-> p + 1,
                  parameter |-> [parameterName |-> ParamValue(name, v, p)]]]]

\* The series variants of an element: two for the elements whose values the
\* handler compares or averages, one for the others.
SeriesVariants(name) == IF name \in {"Wx", "MinT", "MaxT"} THEN 1..2 ELSE {1}

\* Every weatherElement array with the given names: each element has its own
\* series variant and its own length (so the elements need not be aligned).
ElementArrays(names) ==
    { [k \in 1..Len(names) |-> Element(names[k], c[k][1], c[k][2])] :
        c \in { d \in [1..Len(names) -> (1..2) \X (0..MaxSlots)] :
                  \A k \in 1..Len(names) : d[k][1] \in SeriesVariants(names[k]) } }

\* The same, every element of variant 1 and of the same length.
AlignedArrays(names) ==
    { [k \in 1..Len(names) |-> Element(names[k], 1, m)] : m \in 0..MaxSlots }

NameLists ==
    { <<>>, <<"Wx">>, <<"MinT", "MaxT">>, <<"RH", "Wx">>, <<"Wx", "Wx">>,
      <<"MaxT", "Wx", "MinT">>, <<"Wx", "RH", "MinT", "MaxT">>,
      <<"Wx", "PoP", "MinT", "CI", "MaxT">> }

RichElementArrays == UNION { ElementArrays(names) : names \in NameLists }

SmallElementArrays ==
    AlignedArrays(<<"Wx", "MinT", "MaxT">>)
      \cup { <<>>, <<Element("Wx", 1, 1), Element("MinT", 1, 0)>> }

\* A place other than `key`.
Decoy(key) == IF key = "TaipeiCity" THEN "TainanCity" ELSE "TaipeiCity"

\* The location arrays the provider may return for a query by `key`: with
\* or without a record of that name, with or without a record of another.
LocationArrays(key, els, decoyEls) ==
    LET loc == [locationName |-> key, weatherElement |-> els]
        decoy == [locationName |-> Decoy(key), weatherElement |-> decoyEls]
    IN  { <<>>, <<loc>>, <<decoy>>, <<decoy, loc>> }

MalformedBody == [wellFormed |-> FALSE]       \* no records / no location array

GeneralBodies(key, elementArrays) ==
    { [wellFormed |-> TRUE,
       records |-> [datasetDescription |-> <<"36h forecast">>,
                    location |-> locs]] :
        locs \in UNION { LocationArrays(key, els, <<Element("Wx", 2, 1)>>) :
                            els \in elementArrays } }
      \cup {MalformedBody}

(***************************************************************************)
(* The state a handler starts from, and the response object.               *)
(***************************************************************************)
NoData == <<Undefined, Undefined>>
NoWeather == [city |-> ""]

\* res.status(s).json(body); res.json(body) sends status 200.
Send(status, body) == Append(res, [status |-> status, body |-> body])

Fresh(q) ==
    /\ query' = q
    /\ data' = NoData

Idle == pc \in {"idle", "done"}

(***************************************************************************)
(* server.js: getGeneralWeather                                            *)
(***************************************************************************)
\* server.js:66  CWA_NAME_MAP[requestedLocationName] || requestedLocationName
ApiLocationNameUnmapped(requestedLocationName) == requestedLocationName
ApiLocationName(requestedLocationName) ==
    IF requestedLocationName \in DOMAIN CWA_NAME_MAP
    THEN CWA_NAME_MAP[requestedLocationName]
    ELSE requestedLocationName

\* server.js:145-162 and part_000:155-173, the catch block.  Reading
\* error.response.data.message throws a TypeError when data is null; that
\* exception is raised inside the catch block and leaves the handler.
Catch(error) ==
    IF error.hasResponse
    THEN LET d == error.response.data
         IN  IF d.kind = "null" THEN [throws |-> TRUE]
             ELSE [throws |-> FALSE,
                   status |-> error.response.status,
                   body |-> [error |-> "CWA API error",
                             message |->
                                IF d.kind = "object" /\ "message" \in DOMAIN d
                                   /\ d.message # <<>>
                                THEN d.message
                                ELSE <<"cannot get weather data">>,
                             details |-> d]]
    ELSE [throws |-> FALSE, status |-> 500,
          body |-> [error |-> "server error",
                    message |-> IF error.message # <<>> THEN error.message
                                ELSE <<"cannot get weather data, retry later">>]]

\* The handler ends in its catch block with `error`.
EndInCatch(error) ==
    LET c == Catch(error)
    IN  /\ pc' = "done"
        /\ IF c.throws
           THEN escaped' = TRUE /\ res' = res
           ELSE escaped' = escaped /\ res' = Send(c.status, c.body)

\* server.js:35-38 and part_000:34-37: fetchCwaData throws before axios.get
\* when the credential is not set.
ConfigError == [message |-> <<"set CWA_API_KEY in the .env file">>,
                hasResponse |-> FALSE]

\* One outbound axios.get.
Call(datasetId, params) ==
    [datasetId |-> datasetId, params |-> params, state |-> "pending",
     outcome |-> [type |-> "pending"]]

\* The promise of call k settles with outcome o (the body of a 2xx answer is
\* kept in `data`, not here).
Settle(cs, k, o) ==
    [cs EXCEPT ![k].state = IF o.type = "ok" THEN "fulfilled" ELSE "rejected",
               ![k].outcome = IF o.type = "ok" THEN [type |-> "ok"] ELSE o]

\* server.js:58-69: from the request to the first await (or to a response).
GetGeneralWeather(q) ==
    /\ variant = "general"
    /\ Idle
    /\ Fresh(q)
    /\ locationData' = Undefined
    /\ weatherData' = NoWeather
    /\ i' = 0
    /\ UNCHANGED <<variant, CWA_API_KEY>>
    /\ IF q = ""
       THEN /\ res' = <<[status |-> 400,
                         body |-> [error |-> "missing parameter",
                                   message |-> <<"provide locationName">>]]>>
            /\ pc' = "done"
            /\ escaped' = FALSE
            /\ apiLocationName' = ""
            /\ calls' = <<>>
       ELSE /\ apiLocationName' = ApiLocationName(q)
            /\ IF ~CWA_API_KEY
               THEN /\ calls' = <<>>
                    /\ pc' = "done"
                    /\ LET c == Catch(ConfigError)
                       IN  /\ escaped' = c.throws
                           /\ res' = IF c.throws THEN <<>>
                                     ELSE <<[status |-> c.status, body |-> c.body]>>
               ELSE /\ calls' = <<Call("F-C0032-001",
                                       [Authorization |-> TRUE,
                                        locationName |-> ApiLocationName(q)])>>
                    /\ pc' = "await"
                    /\ escaped' = FALSE
                    /\ res' = <<>>

NA == <<"N", "/", "A">>

\* server.js:96-105: the forecast object before the elements are read.
InitialForecast(first, idx) ==
    [startTime |-> first.time[idx + 1].startTime,
     endTime |-> first.time[idx + 1].endTime,
     weather |-> <<>>, rain |-> <<>>, minTemp |-> <<>>, maxTemp |-> <<>>]

\* server.js:108-126: one element's contribution to the forecast of slot idx.
SetFieldAnyName(forecast, element, idx) ==
    [forecast EXCEPT !.weather = element.time[idx + 1].parameter.parameterName]
SetField(forecast, element, idx) ==
    LET value == element.time[idx + 1].parameter
        name == element.elementName
    IN  CASE name = "Wx"   -> [forecast EXCEPT !.weather = value.parameterName]
          [] name = "PoP"  ->
                [forecast EXCEPT !.rain = value.parameterName \o Percent]
          [] name = "MinT" ->
                [forecast EXCEPT !.minTemp = value.parameterName \o DegC]
          [] name = "MaxT" ->
                [forecast EXCEPT !.maxTemp = value.parameterName \o DegC]
          [] name = "CI"   -> [comfort |-> value.parameterName] @@ forecast
          [] OTHER         -> forecast

\* server.js:107: weatherElements.forEach, elements k..Len in order.
RECURSIVE ForEachElement(_, _, _, _)
ForEachElement(forecast, weatherElements, k, idx) ==
    IF k > Len(weatherElements) THEN forecast
    ELSE ForEachElement(SetField(forecast, weatherElements[k], idx),
                        weatherElements, k + 1, idx)

\* element.time[i] is undefined for some element: reading .parameter throws.
SlotMissing(weatherElements, idx) ==
    \E k \in 1..Len(weatherElements) : Len(weatherElements[k].time) < idx + 1

\* server.js:93
TimeCount(weatherElements) == Len(weatherElements[1].time)

\* server.js:130-136
CurrentWeatherFrom(forecast) ==
    [temperature |->
        NumToStr(RoundHalfSum(ParseInt(forecast.minTemp),
                              ParseInt(forecast.maxTemp))) \o DegC,
     weatherDescription |-> forecast.weather]

\* server.js:69-93: the awaited fetch settles and the handler runs on to the
\* loop, to a 404 or into its catch block.
GeneralFetchSettles(elementArrays) ==
    /\ variant = "general"
    /\ pc = "await"
    /\ \E o \in { Ok(b) : b \in GeneralBodies(calls[1].params.locationName,
                                              elementArrays) }
                  \cup HttpErrors \cup {NetworkError} :
        /\ calls' = Settle(calls, 1, o)
        /\ UNCHANGED <<variant, CWA_API_KEY, query, apiLocationName, i>>
        /\ IF o.type # "ok"
           THEN /\ EndInCatch(AxiosError(o))
                /\ UNCHANGED <<data, locationData, weatherData>>
           ELSE /\ data' = [data EXCEPT ![1] = o.body]
                /\ IF ~o.body.wellFormed
                   THEN /\ EndInCatch(TypeError)
                        /\ UNCHANGED <<locationData, weatherData>>
                   ELSE LET found ==
                              Find(o.body.records.location, "locationName",
                                   apiLocationName)
                        IN  /\ locationData' = found
                            /\ IF found = Undefined
                               THEN /\ res' = Send(404,
                                         [error |-> "no data",
                                          message |-> <<"cannot get weather data of",
                                                        apiLocationName>>])
                                    /\ pc' = "done"
                                    /\ UNCHANGED <<weatherData, escaped>>
                               ELSE /\ weatherData' =
                                         [city |-> query,
                                          updateTime |->
                                              o.body.records.datasetDescription,
                                          currentWeather |->
                                              [temperature |-> NA \o DegC,
                                               weatherDescription |-> NA],
                                          forecasts |-> <<>>]
                                    /\ IF found.weatherElement = <<>>
                                       THEN EndInCatch(TypeError)
                                       ELSE /\ pc' = "loop"
                                            /\ UNCHANGED <<res, escaped>>

\* server.js:95-139: one iteration of the for loop.
GeneralLoop ==
    /\ variant = "general"
    /\ pc = "loop"
    /\ i < TimeCount(locationData.weatherElement)
    /\ UNCHANGED <<variant, CWA_API_KEY, query, apiLocationName, calls, data,
                   locationData>>
    /\ IF SlotMissing(locationData.weatherElement, i)
       THEN /\ EndInCatch(TypeError)
            /\ UNCHANGED <<weatherData, i>>
       ELSE LET forecast ==
                  ForEachElement(
                      InitialForecast(locationData.weatherElement[1], i),
                      locationData.weatherElement, 1, i)
            IN  /\ weatherData' =
                     [weatherData EXCEPT
                        !.currentWeather =
                            IF i = 0 THEN CurrentWeatherFrom(forecast) ELSE @,
                        !.forecasts = Append(@, forecast)]
                /\ i' = i + 1
                /\ UNCHANGED <<pc, res, escaped>>

\* server.js:141-144: the loop is over, res.json({success, data}).
GeneralRespond ==
    /\ variant = "general"
    /\ pc = "loop"
    /\ i >= TimeCount(locationData.weatherElement)
    /\ res' = Send(200, [success |-> TRUE, data |-> weatherData])
    /\ pc' = "done"
    /\ UNCHANGED <<variant, CWA_API_KEY, query, apiLocationName, calls, data,
                   locationData, weatherData, i, escaped>>

(***************************************************************************)
(* Bodies of the two-week dataset F-D0047-091 and of the UV dataset        *)
(* F-A0085-005, as part_000 reads them.                                    *)
(***************************************************************************)
\* The T series of n slots; slot p starts at p.
TElement(n) ==
    [elementName |-> "T",
     time |-> [p \in 1..n |->
                 [startTime |-> p, endTime |-> p + 1,
                  elementValue |-> [value |-> NatToStr(20 + p)]]]]

\* A Wx series with the given start times; the value names the start time
\* and the position, so that two slots of one start time differ.
WxElement(starts) ==
    [elementName |-> "Wx",
     time |-> [p \in 1..Len(starts) |->
                 [startTime |-> starts[p], endTime |-> starts[p] + 1,
                  elementValue |->
                      <<[value |-> <<"W">> \o NatToStr(starts[p])
                                           \o <<"#">> \o NatToStr(p)]>>]]]

\* Start times of a Wx series sent with a T series of n slots: aligned with
\* it, shifted by one slot, or any short series (repeats included).
WxStarts(n) ==
    { [p \in 1..n |-> p], [p \in 1..n |-> p + 1] }
      \cup UNION { [1..m -> 1..MaxWxStart] : m \in 0..MaxWxSlots }

RichJoinArrays ==
    UNION { UNION { { <<TElement(n), WxElement(w)>>,
                      <<WxElement(w), TElement(n)>>,
                      <<WxElement(w)>> } : w \in WxStarts(n) }
              \cup { <<TElement(n)>> } : n \in 0..MaxTSlots } \cup { <<>> }

SmallJoinArrays ==
    { <<>>, <<TElement(1)>>, <<WxElement(<<1>>)>>,
      <<TElement(MaxTSlots), WxElement([p \in 1..MaxTSlots |-> p])>> }

TwoWeekBodies(key, elementArrays) ==
    { [wellFormed |-> TRUE,
       records |-> [locations |->
                      <<[datasetDescription |-> <<"two week forecast">>,
                         location |-> locs]>>]] :
        locs \in UNION { LocationArrays(key, els, <<TElement(1)>>) :
                            els \in elementArrays } }
      \cup {MalformedBody}

UvElement(v) == [elementValue |-> [value |-> v]]
NoElementValue == [broken |-> TRUE]      \* weatherElement[0] without elementValue

UvBody(locations) ==
    [wellFormed |-> TRUE,
     records |-> [datasetDescription |-> <<"uv index">>,
                  locations |-> locations]]

GoodUvBody(key) ==
    UvBody(<<[location |-> <<[locationName |-> key,
                              weatherElement |-> <<UvElement(<<"7">>)>>]>>]>>)

UvBodies(key) ==
    { MalformedBody, UvBody(<<>>), GoodUvBody(key) }
      \cup { UvBody(<<[location |-> locs]>>) :
               locs \in LocationArrays(key, <<>>, <<UvElement(<<"3">>)>>)
                        \cup { <<[locationName |-> key,
                                  weatherElement |-> <<UvElement(<<>>)>>]>>,
                               <<[locationName |-> key,
                                  weatherElement |-> <<NoElementValue>>]>> } }

(***************************************************************************)
(* part_000: getCombinedWeather                                            *)
(***************************************************************************)
Min(a, b) == IF a < b THEN a ELSE b

\* part_000:113  Array.prototype.slice(0, n)
Slice(arr, n) == SubSeq(arr, 1, Min(n, Len(arr)))

\* part_000:114-123: the record of one T slot.
JoinSlotByPosition(timeSlot, wxElement, pos) ==
    [startTime |-> timeSlot.startTime,
     endTime |-> timeSlot.endTime,
     temperature |-> timeSlot.elementValue.value \o DegC,
     weatherDescription |->
        IF wxElement # Undefined /\ pos <= Len(wxElement.time)
        THEN wxElement.time[pos].elementValue[1].value ELSE NA]
JoinSlot(timeSlot, wxElement, pos) ==
    LET weatherAtTime ==
            IF wxElement # Undefined
            THEN Find(wxElement.time, "startTime", timeSlot.startTime)
            ELSE Undefined
    IN  [startTime |-> timeSlot.startTime,
         endTime |-> timeSlot.endTime,
         temperature |-> timeSlot.elementValue.value \o DegC,
         weatherDescription |->
            IF weatherAtTime # Undefined
            THEN weatherAtTime.elementValue[1].value ELSE NA]

\* part_000:104-126
Forecasts(targetLocation) ==
    IF targetLocation # Undefined /\ Len(targetLocation.weatherElement) > 0
    THEN LET tempElement == Find(targetLocation.weatherElement, "elementName", "T")
             wxElement == Find(targetLocation.weatherElement, "elementName", "Wx")
         IN  IF tempElement # Undefined
             THEN LET kept == Slice(tempElement.time, JoinLimit)
                  IN  [p \in 1..Len(kept) |-> JoinSlot(kept[p], wxElement, p)]
             ELSE <<>>
    ELSE <<>>

\* part_000:133-141; [throws] when weatherElement[0] has no elementValue.
CurrentUV(uvIndexData, locationName) ==
    IF Len(uvIndexData.records.locations) > 0
    THEN LET uvLocation == Find(uvIndexData.records.locations[1].location,
                                "locationName", locationName)
         IN  IF uvLocation # Undefined /\ Len(uvLocation.weatherElement) > 0
             THEN LET first == uvLocation.weatherElement[1]
                  IN  IF "elementValue" \notin DOMAIN first
                      THEN [throws |-> TRUE]
                      ELSE [throws |-> FALSE,
                            value |-> IF first.elementValue.value # <<>>
                                      THEN first.elementValue.value ELSE NA]
             ELSE [throws |-> FALSE, value |-> NA]
    ELSE [throws |-> FALSE, value |-> NA]

\* part_000:60-96: from the request to Promise.all (or to a response).
GetCombinedWeather(q) ==
    /\ variant = "combined"
    /\ Idle
    /\ Fresh(q)
    /\ locationData' = Undefined
    /\ weatherData' = NoWeather
    /\ apiLocationName' = q
    /\ escaped' = FALSE
    /\ UNCHANGED <<variant, CWA_API_KEY, i>>
    /\ IF q = ""
       THEN /\ res' = <<[status |-> 400,
                         body |-> [error |-> "missing parameter",
                                   message |-> <<"provide locationName">>]]>>
            /\ pc' = "done"
            /\ calls' = <<>>
       ELSE IF ~Includes(TAIWAN_LOCATIONS, q)
       THEN /\ res' = <<[status |-> 400,
                         body |-> [error |-> "invalid place",
                                   message |-> <<"place not supported", q>>]]>>
            /\ pc' = "done"
            /\ calls' = <<>>
       ELSE IF ~CWA_API_KEY
       THEN /\ res' = <<[status |-> 500,
                         body |-> [error |-> "server configuration error",
                                   message |-> <<"set CWA_API_KEY in the .env file">>]]>>
            /\ pc' = "done"
            /\ calls' = <<>>
       ELSE /\ calls' = <<Call("F-D0047-091",
                               [Authorization |-> TRUE, locationName |-> q,
                                elementName |-> "T,Wx"]),
                          Call("F-A0085-005", [Authorization |-> TRUE])>>
            /\ pc' = "awaitAll"
            /\ res' = <<>>

\* part_000:98-153: both bodies are there; normalise and respond.
CombinedFinish(twoWeekForecastData, uvIndexData) ==
    IF ~twoWeekForecastData.wellFormed
    THEN EndInCatch(TypeError) /\ UNCHANGED <<locationData, weatherData>>
    ELSE LET targetLocation ==
                 Find(twoWeekForecastData.records.locations[1].location,
                      "locationName", query)
         IN  /\ locationData' = targetLocation
             /\ IF ~uvIndexData.wellFormed
                THEN EndInCatch(TypeError) /\ UNCHANGED weatherData
                ELSE LET uv == CurrentUV(uvIndexData, query)
                     IN  IF uv.throws
                         THEN EndInCatch(TypeError) /\ UNCHANGED weatherData
                         ELSE /\ weatherData' =
                                   [city |-> query,
                                    updateTime |->
                                        twoWeekForecastData.records.locations[1]
                                            .datasetDescription,
                                    uvDescription |->
                                        uvIndexData.records.datasetDescription,
                                    currentUVIndex |-> uv.value,
                                    forecasts |-> Forecasts(targetLocation)]
                              /\ res' = Send(200, [success |-> TRUE,
                                                   data |-> weatherData'])
                              /\ pc' = "done"
                              /\ UNCHANGED escaped

\* One of the two fetches settles.  Promise.all rejects with the first
\* rejection and resolves when both are fulfilled; a fetch that settles
\* after the handler has ended changes nothing but its own state.
CombinedFetchSettles(joinArrays, rich) ==
    /\ variant = "combined"
    /\ \E k \in 1..Len(calls) :
        /\ calls[k].state = "pending"
        /\ \E o \in { Ok(b) : b \in
                        IF k = 1 THEN TwoWeekBodies(query, joinArrays)
                        ELSE IF rich THEN {GoodUvBody(query)}
                        ELSE UvBodies(query) }
                      \cup HttpErrors \cup {NetworkError} :
            /\ calls' = Settle(calls, k, o)
            /\ UNCHANGED <<variant, CWA_API_KEY, query, apiLocationName, i>>
            /\ IF pc # "awaitAll"
               THEN UNCHANGED <<pc, data, locationData, weatherData, res, escaped>>
               ELSE IF o.type # "ok"
               THEN /\ EndInCatch(AxiosError(o))
                    /\ UNCHANGED <<data, locationData, weatherData>>
               ELSE /\ data' = [data EXCEPT ![k] = o.body]
                    /\ IF calls[3 - k].state = "fulfilled"
                       THEN CombinedFinish(data'[1], data'[2])
                       ELSE UNCHANGED <<pc, locationData, weatherData, res,
                                        escaped>>

(***************************************************************************)
(* part_001: handler.  It reads the first location record of each body     *)
(* through optional chaining, so a body without one yields undefined.      *)
(***************************************************************************)
RawElement(name) ==
    [elementName |-> name, description |-> <<"desc of", name>>,
     time |-> <<1, 2>>, unit |-> "C"]

NoWeatherElement(key) == [locationName |-> key]   \* record without weatherElement

\* Bodies of either dataset, as far as part_001 looks into them.
FirstRecordBodies(key) ==
    { [wellFormed |-> TRUE, location |-> locs] :
        locs \in LocationArrays(key, <<RawElement("T"), RawElement("Wx")>>,
                                <<RawElement("UVI")>>)
                 \cup { <<NoWeatherElement(key)>> } }
      \cup {MalformedBody}

\* data?.records?.locations?.[0]?.location?.[0]
FirstRecord(body) ==
    IF body.wellFormed /\ Len(body.location) > 0 THEN body.location[1]
    ELSE Undefined

\* part_001:39-43 and 69-73
MapElements(els) ==
    [k \in 1..Len(els) |->
        [elementName |-> els[k].elementName,
         description |-> els[k].description,
         time |-> els[k].time]]

\* part_001:85-90: the catch block reads error.message only.
HandlerCatch(error) ==
    /\ res' = Send(500, [success |-> FALSE, error |-> error.message])
    /\ pc' = "done"
    /\ UNCHANGED escaped

\* part_001:3-25: from the request to the first await (or to the 400).
Handler(city) ==
    /\ variant = "serverless"
    /\ Idle
    /\ Fresh(city)
    /\ locationData' = Undefined
    /\ weatherData' = NoWeather
    /\ apiLocationName' = city
    /\ escaped' = FALSE
    /\ UNCHANGED <<variant, CWA_API_KEY, i>>
    /\ IF city = ""
       THEN /\ res' = <<[status |-> 400,
                         body |-> [success |-> FALSE,
                                   error |-> <<"missing city parameter">>]]>>
            /\ pc' = "done"
            /\ calls' = <<>>
       ELSE /\ calls' = <<Call("F-D0047-091",
                               [Authorization |-> CWA_API_KEY,
                                locationName |-> city])>>
            /\ pc' = "awaitWeek"
            /\ res' = <<>>

\* part_001:20-55: the first fetch settles; the second is issued only now.
HandlerWeekSettles ==
    /\ variant = "serverless"
    /\ pc = "awaitWeek"
    /\ \E o \in { Ok(b) : b \in FirstRecordBodies(query) }
                  \cup HttpErrors \cup {NetworkError} :
        /\ UNCHANGED <<variant, CWA_API_KEY, query, apiLocationName, i,
                       weatherData>>
        /\ IF o.type # "ok"
           THEN /\ calls' = Settle(calls, 1, o)
                /\ HandlerCatch(AxiosError(o))
                /\ UNCHANGED <<data, locationData>>
           ELSE LET weekRecords == FirstRecord(o.body)
                IN  /\ data' = [data EXCEPT ![1] = o.body]
                    /\ locationData' = weekRecords
                    /\ IF weekRecords = Undefined
                       THEN /\ calls' = Settle(calls, 1, o)
                            /\ res' = Send(200,
                                  [success |-> FALSE,
                                   error |-> <<"F-D0047-091 cannot find city",
                                               query>>,
                                   raw |-> o.body])
                            /\ pc' = "done"
                            /\ UNCHANGED escaped
                       ELSE IF "weatherElement" \notin DOMAIN weekRecords
                       THEN /\ calls' = Settle(calls, 1, o)
                            /\ HandlerCatch(TypeError)
                       ELSE /\ calls' =
                                 Append(Settle(calls, 1, o),
                                        Call("F-A0085-005",
                                             [Authorization |-> CWA_API_KEY,
                                              locationName |-> query]))
                            /\ pc' = "awaitDay"
                            /\ UNCHANGED <<res, escaped>>

\* part_001:50-83: the second fetch settles.
HandlerDaySettles ==
    /\ variant = "serverless"
    /\ pc = "awaitDay"
    /\ \E o \in { Ok(b) : b \in FirstRecordBodies(query) }
                  \cup HttpErrors \cup {NetworkError} :
        /\ UNCHANGED <<variant, CWA_API_KEY, query, apiLocationName, i,
                       locationData>>
        /\ calls' = Settle(calls, 2, o)
        /\ IF o.type # "ok"
           THEN /\ HandlerCatch(AxiosError(o))
                /\ UNCHANGED <<data, weatherData>>
           ELSE LET dayRecords == FirstRecord(o.body)
                IN  /\ data' = [data EXCEPT ![2] = o.body]
                    /\ IF dayRecords = Undefined
                       THEN /\ res' = Send(200,
                                  [success |-> FALSE,
                                   error |-> <<"F-A0085-005 cannot find city",
                                               query>>,
                                   raw |-> o.body])
                            /\ pc' = "done"
                            /\ UNCHANGED <<weatherData, escaped>>
                       ELSE IF "weatherElement" \notin DOMAIN dayRecords
                       THEN /\ HandlerCatch(TypeError)
                            /\ UNCHANGED weatherData
                       ELSE /\ weatherData' =
                                 [city |-> query,
                                  weekly |-> MapElements(locationData.weatherElement),
                                  hourly |-> MapElements(dayRecords.weatherElement)]
                            /\ res' = Send(200, [success |-> TRUE] @@ weatherData')
                            /\ pc' = "done"
                            /\ UNCHANGED escaped

Variants == {"general", "combined", "serverless"}

Init ==
    /\ variant \in Variants
    /\ CWA_API_KEY \in BOOLEAN
    /\ pc = "idle"
    /\ query = ""
    /\ apiLocationName = ""
    /\ calls = <<>>
    /\ data = NoData
    /\ locationData = Undefined
    /\ weatherData = NoWeather
    /\ i = 0
    /\ res = <<>>
    /\ escaped = FALSE

\* What a client can send as the place: nothing, each supported place, and a
\* place that is not supported.
Queries == {""} \cup Range(TAIWAN_LOCATIONS) \cup {"Atlantis"}

Next ==
    \/ \E q \in Queries : GetGeneralWeather(q)
    \/ GeneralFetchSettles(SmallElementArrays)
    \/ GeneralLoop
    \/ GeneralRespond
    \/ \E q \in Queries : GetCombinedWeather(q)
    \/ CombinedFetchSettles(SmallJoinArrays, FALSE)
    \/ \E q \in Queries : Handler(q)
    \/ HandlerWeekSettles
    \/ HandlerDaySettles

Spec == Init /\ [][Next]_vars

(***************************************************************************)
(* The 36-hour variant alone, over every weatherElement array of NameLists *)
(* (aligned or not), for a place that CWA_NAME_MAP maps.                    *)
(***************************************************************************)
InitNormalize == Init /\ variant = "general"

NextNormalize ==
    \/ \E q \in {"HsinchuCity"} : GetGeneralWeather(q)
    \/ GeneralFetchSettles(RichElementArrays)
    \/ GeneralLoop
    \/ GeneralRespond

SpecNormalize == InitNormalize /\ [][NextNormalize]_vars

(***************************************************************************)
(* The two-dataset variant of part_000 alone, over every T series up to    *)
(* MaxTSlots and every Wx series of WxStarts.                              *)
(***************************************************************************)
InitJoin == Init /\ variant = "combined"

NextJoin ==
    \/ \E q \in {"TaipeiCity"} : GetCombinedWeather(q)
    \/ CombinedFetchSettles(RichJoinArrays, TRUE)

SpecJoin == InitJoin /\ [][NextJoin]_vars

(***************************************************************************)
(* Properties.                                                             *)
(***************************************************************************)
Supported(place) == Includes(TAIWAN_LOCATIONS, place)
Started == pc # "idle"
Ended == pc = "done"
Awaiting == pc \in {"await", "awaitAll", "awaitWeek", "awaitDay"}
AnsweredOnce == Len(res) = 1
Success == AnsweredOnce /\ res[1].status = 200 /\ res[1].body.success

\* The location array of the first dataset's body, as each variant reads it.
FirstLocationArray ==
    CASE variant = "general"  -> data[1].records.location
      [] variant = "combined" -> data[1].records.locations[1].location
      [] OTHER                -> data[1].location

\* C1: a request whose place is present but not one of TAIWAN_LOCATIONS is
\* answered with HTTP 400 and a message, and issues no outbound call.
C1_UnsupportedPlaceRejected ==
    (Started /\ query # "" /\ ~Supported(query)) =>
        /\ calls = <<>>
        /\ Ended
        /\ AnsweredOnce
        /\ res[1].status = 400
        /\ "message" \in DOMAIN res[1].body

\* C2: without CWA_API_KEY a request for a supported place is answered with
\* HTTP 500 and no outbound call is issued.
C2_MissingCredentialNoCall ==
    (Started /\ ~CWA_API_KEY /\ Supported(query)) =>
        /\ calls = <<>>
        /\ Ended
        /\ AnsweredOnce
        /\ res[1].status = 500

\* C3: no exception leaves the handler, and a handler that has ended has
\* sent exactly one response.
C3_EveryFailureAnswered ==
    /\ ~escaped
    /\ Len(res) <= 1
    /\ Ended => AnsweredOnce

\* C4: when every fetch succeeded and the first dataset's location array has
\* no record named by the resolved key, the response is HTTP 404 (never
\* 200) and its message names the place.
C4_MissingPlaceIs404 ==
    ( /\ Ended
      /\ calls # <<>>
      /\ \A k \in 1..Len(calls) : calls[k].state = "fulfilled"
      /\ data[1].wellFormed
      /\ Find(FirstLocationArray, "locationName", apiLocationName) = Undefined )
    =>  /\ AnsweredOnce
        /\ res[1].status = 404
        /\ "message" \in DOMAIN res[1].body
        /\ apiLocationName \in Range(res[1].body.message)

\* C5: a handler that needs two datasets has issued both calls whenever it
\* is awaiting, answers 200 only when both calls were fulfilled, and answers
\* an error without data when a call was rejected.
C5_BothIssuedBeforeAwait ==
    variant \in {"combined", "serverless"} =>
        /\ Awaiting => Len(calls) = 2
        /\ (Ended /\ AnsweredOnce /\ res[1].status = 200) =>
              /\ Len(calls) = 2
              /\ \A k \in 1..2 : calls[k].state = "fulfilled"
        /\ (Ended /\ calls # <<>> /\ calls[1].state = "rejected") =>
              /\ Len(calls) = 2
              /\ AnsweredOnce
              /\ res[1].status # 200
              /\ DOMAIN res[1].body \cap {"data", "weekly", "hourly"} = {}

\* C9: when the upstream answers with an HTTP error, the response carries
\* the upstream status, the upstream message (or the default) and the raw
\* upstream body as details.  (Stated for the error bodies other than null:
\* for null nothing is answered at all, which C3_EveryFailureAnswered shows.)
C9_UpstreamStatusPropagated ==
    ( /\ Ended
      /\ \E k \in 1..Len(calls) : calls[k].state = "rejected"
      /\ \A k \in 1..Len(calls) :
            calls[k].state = "rejected" =>
               /\ calls[k].outcome.type = "http"
               /\ calls[k].outcome.body.kind # "null" )
    =>  /\ AnsweredOnce
        /\ \E k \in 1..Len(calls) :
              /\ calls[k].state = "rejected"
              /\ res[1].status = calls[k].outcome.status
              /\ DOMAIN res[1].body = {"error", "message", "details"}
              /\ res[1].body.details = calls[k].outcome.body
              /\ res[1].body.message =
                    IF "message" \in DOMAIN calls[k].outcome.body
                       /\ calls[k].outcome.body.message # <<>>
                    THEN calls[k].outcome.body.message
                    ELSE <<"cannot get weather data">>


\* The key the claim expects for a requested place.
ExpectedKey(place) ==
    IF place = "HsinchuCity" THEN "HsinchuCounty"
    ELSE IF place = "ChiayiCity" THEN "ChiayiCounty"
    ELSE place

\* C6: in server.js, for every supported place the upstream query and the
\* location lookup use the CWA_NAME_MAP entry of the requested name, or the
\* name itself when it has none (never empty, and the call is issued, so
\* resolving did not throw); the city of a success response is the
\* requested name.
C6_MappedKeyUsed ==
    (variant = "general" /\ Started /\ Supported(query)) =>
        /\ apiLocationName = ExpectedKey(query)
        /\ apiLocationName # ""
        /\ CWA_API_KEY =>
              /\ Len(calls) = 1
              /\ calls[1].params.locationName = ExpectedKey(query)
        /\ locationData # Undefined =>
              locationData.locationName = ExpectedKey(query)
        /\ Success => res[1].body.data.city = query

C6_Witness ==
    /\ variant = "general"
    /\ query = "HsinchuCity"
    /\ Success
    /\ calls[1].params.locationName = "HsinchuCounty"
    /\ locationData.locationName = "HsinchuCounty"
    /\ res[1].body.data.city = "HsinchuCity"

\* The weather elements of the location record the 36-hour handler found.
FoundElements == locationData.weatherElement

\* N >= 1 elements that all have the M time slots of the first.
Aligned ==
    /\ locationData # Undefined
    /\ Len(FoundElements) >= 1
    /\ \A k \in 1..Len(FoundElements) :
          Len(FoundElements[k].time) = Len(FoundElements[1].time)

Named(name) == {k \in 1..Len(FoundElements) : FoundElements[k].elementName = name}

\* The value slot p takes from the elements called `name`: that of the last
\* such element with `suffix` appended, the empty string when there is none.
ExpectedField(name, p, suffix) ==
    IF Named(name) = {} THEN <<>>
    ELSE LET k == CHOOSE x \in Named(name) : \A y \in Named(name) : y <= x
         IN  FoundElements[k].time[p].parameter.parameterName \o suffix

\* C7: for a location record whose N elements share M aligned slots, the
\* 36-hour handler answers 200 with exactly M forecasts in upstream order,
\* each with the first element's startTime/endTime at that index and with
\* weather, rain, minTemp, maxTemp, comfort set only from Wx, PoP, MinT,
\* MaxT, CI; elements of any other name add nothing and make nothing fail.
C7_SlotsFromRecognisedElements ==
    (variant = "general" /\ Ended /\ Aligned) =>
        /\ Success
        /\ LET f == res[1].body.data.forecasts
               first == FoundElements[1]
           IN  /\ Len(f) = Len(first.time)
               /\ \A p \in 1..Len(f) :
                    /\ f[p].startTime = first.time[p].startTime
                    /\ f[p].endTime = first.time[p].endTime
                    /\ f[p].weather = ExpectedField("Wx", p, <<>>)
                    /\ f[p].rain = ExpectedField("PoP", p, Percent)
                    /\ f[p].minTemp = ExpectedField("MinT", p, DegC)
                    /\ f[p].maxTemp = ExpectedField("MaxT", p, DegC)
                    /\ ("comfort" \in DOMAIN f[p]) <=> (Named("CI") # {})
                    /\ Named("CI") # {} =>
                          f[p].comfort = ExpectedField("CI", p, <<>>)
                    /\ DOMAIN f[p] \subseteq
                          {"startTime", "endTime", "weather", "rain",
                           "minTemp", "maxTemp", "comfort"}

C7_Witness ==
    /\ variant = "general"
    /\ Ended
    /\ Aligned
    /\ Named("RH") # {}
    /\ Named("MinT") # {}
    /\ Len(FoundElements[1].time) >= 2
    /\ Success
    /\ Len(res[1].body.data.forecasts) = Len(FoundElements[1].time)
    /\ res[1].body.data.forecasts[2].minTemp # <<>>

\* Temperatures the claim about currentWeather is checked for.
TempRange == (0 - 12)..30
TempText(n) == NumToStr(Num(n)) \o DegC

C8_FirstSlotAverage ==
    ( /\ variant = "general"
      /\ pc \in {"loop", "done"}
      /\ "forecasts" \in DOMAIN weatherData
      /\ Len(weatherData.forecasts) >= 1 )
    =>  LET first == weatherData.forecasts[1]
            current == weatherData.currentWeather
        IN  /\ current.weatherDescription = first.weather
            /\ \A a \in TempRange : first.minTemp = TempText(a) =>
                 \A b \in TempRange : first.maxTemp = TempText(b) =>
                    \E r \in TempRange :
                        /\ 2 * r - (a + b) \in {0, 1}
                        /\ current.temperature = TempText(r)
            /\ ( /\ first.minTemp = <<"2", "0", "deg", "C">>
                 /\ first.maxTemp = <<"2", "4", "deg", "C">> )
               => current.temperature = <<"2", "2", "deg", "C">>

C8_LaterSlotsKeepCurrent ==
    (variant = "general" /\ pc = "loop" /\ i >= 1) =>
        weatherData'.currentWeather = weatherData.currentWeather

\* C8: when the first slot's minTemp and maxTemp are integers followed by
\* the degree suffix, currentWeather.temperature is their average rounded
\* to the nearest integer (a half rounds up) followed by the suffix, 20 and
\* 24 giving 22; weatherDescription is the first slot's weather; and no
\* iteration after the first changes currentWeather.
C8_CurrentWeatherFromFirstSlot ==
    [] C8_FirstSlotAverage /\ [][C8_LaterSlotsKeepCurrent]_vars

C8_Witness ==
    /\ variant = "general"
    /\ Success
    /\ Len(weatherData.forecasts) >= 2
    /\ weatherData.forecasts[1].minTemp = <<"2", "0", "deg", "C">>
    /\ weatherData.forecasts[1].maxTemp = <<"2", "4", "deg", "C">>
    /\ weatherData.forecasts[1].weather # <<>>
    /\ res[1].body.data.currentWeather =
          [temperature |-> <<"2", "2", "deg", "C">>,
           weatherDescription |-> weatherData.forecasts[1].weather]

\* The first index of seq whose `field` is `value` (0 when there is none).
FirstIndex(seq, field, value) ==
    LET hits == {k \in 1..Len(seq) : seq[k][field] = value}
    IN  IF hits = {} THEN 0
        ELSE CHOOSE k \in hits : \A j \in hits : k <= j

\* C10: in part_000, once both fetches are fulfilled and well formed, the
\* answer is 200 and forecasts has min(5, length of T's series) records in
\* T's order; each weatherDescription is the value of the first Wx slot of
\* the same startTime, "N/A" when Wx is absent or has no such slot; a record
\* without T (or no record of the place) gives an empty list, not a failure.
C10_JoinByStartTime ==
    ( /\ variant = "combined"
      /\ Ended
      /\ Len(calls) = 2
      /\ \A k \in 1..2 : calls[k].state = "fulfilled"
      /\ data[1].wellFormed
      /\ data[2] = GoodUvBody(query) )
    =>  /\ Success
        /\ LET f == res[1].body.data.forecasts
               locs == data[1].records.locations[1].location
               l == FirstIndex(locs, "locationName", query)
               t == IF l = 0 THEN 0
                    ELSE FirstIndex(locs[l].weatherElement, "elementName", "T")
               w == IF l = 0 THEN 0
                    ELSE FirstIndex(locs[l].weatherElement, "elementName", "Wx")
           IN  IF t = 0 THEN f = <<>>
               ELSE LET T == locs[l].weatherElement[t].time
                    IN  /\ Len(T) <= 5 => Len(f) = Len(T)
                        /\ Len(T) > 5 => Len(f) = 5
                        /\ \A p \in 1..Len(f) :
                             /\ f[p].startTime = T[p].startTime
                             /\ f[p].endTime = T[p].endTime
                             /\ LET Wx == IF w = 0 THEN <<>>
                                          ELSE locs[l].weatherElement[w].time
                                    j == FirstIndex(Wx, "startTime",
                                                    T[p].startTime)
                                IN  f[p].weatherDescription =
                                       IF j = 0 THEN NA
                                       ELSE Wx[j].elementValue[1].value

C10_Witness ==
    /\ variant = "combined"
    /\ Success
    /\ locationData # Undefined
    /\ Len(locationData.weatherElement) = 2
    /\ locationData.weatherElement[2].elementName = "T"
    /\ Len(locationData.weatherElement[2].time) = 6
    /\ Len(res[1].body.data.forecasts) = 5
    /\ res[1].body.data.forecasts[1].weatherDescription = NA
    /\ res[1].body.data.forecasts[2].weatherDescription # NA

=============================================================================
